---- MODULE Spec2Model ----
(***************************************************************************)
(* Model of the quiz runner in src/app.js: the QuizEngine state machine,   *)
(* the Storage adapter over localStorage, and the page's event handlers    *)
(* and interval timer.                                                     *)
(*                                                                         *)
(* JavaScript values that may be undefined are encoded as sequences:       *)
(* <<>> is undefined (or an absent property), <<v>> is the value v.        *)
(* Fractions (passThreshold, percent) are exact rationals [num, den]; for  *)
(* the small integers used here the order of rationals coincides with the  *)
(* order of the IEEE doubles the program computes.                         *)
(***************************************************************************)
EXTENDS Integers, Sequences, FiniteSets, TLC

VARIABLES
    quiz,        \* the quiz definition the engine was built from (loadQuiz's result)
    engine,      \* the QuizEngine instance held by the page (let engine)
    storage,     \* localStorage[STORAGE_KEY]: <<>> when absent, <<text>> otherwise
    timerId,     \* the interval handle: <<>> when no timer is running (let timerId)
    reviewMode,  \* let reviewMode
    nav,         \* the disabled flags of the Prev, Next and Finish buttons
    reloading,   \* TRUE once the Restart handler has asked for a reload
    pre,         \* history: the engine before the last call or handler
    last,        \* history: the last call or handler, with its argument
    ret,         \* history: the summary returned by the last finish(), else <<>>
    finishedTicks, \* history: interval callbacks this document ran on a Finished engine
    done         \* history: how the session first finished, <<>> while it has not

vars == <<quiz, engine, storage, timerId, reviewMode, nav, reloading, pre, last, ret,
          finishedTicks, done>>

----------------------------------------------------------------------------
(* Bounds of the model.                                                    *)

MaxQuestions == 2
MaxTime == 2

(* Program constants.                                                      *)

DefaultTimeLimitSec == 300

----------------------------------------------------------------------------
(* JavaScript values.                                                      *)

Undefined == <<>>
Some(v) == <<v>>
Frac(n, d) == [num |-> n, den |-> d]

\* a >= b on fractions with positive denominators
FracGE(a, b) == a.num * b.den >= b.num * a.den

DefaultPassThreshold == Frac(7, 10)

\* JS truthiness of a number-or-undefined: undefined and 0 are falsy
TruthyNum(v) == v # Undefined /\ v[1] # 0
\* JS truthiness of a fraction-or-undefined
TruthyFrac(v) == v # Undefined /\ v[1].num # 0

----------------------------------------------------------------------------
(* Quiz definitions (the document behind DATA_URL).                        *)

OptionCount(i) == 2 + (i % 2)

QuestionData(i) ==
    [id |-> i,
     options |-> [k \in 1..OptionCount(i) |-> "option"],
     correctIndex |-> i % 2]

QuestionList(n) == [i \in 1..n |-> QuestionData(i)]

QuizData(t, tl, pt, n) ==
    [title |-> t, timeLimitSec |-> tl, passThreshold |-> pt,
     questions |-> QuestionList(n)]

Thresholds == {Some(Frac(0, 1)), Some(Frac(1, 2)), Some(Frac(1, 1))}

\* definitions that state every field, and the minimal definitions that
\* omit the optional timeLimitSec and passThreshold
QuizDefs ==
    {QuizData("A", Some(tl), pt, n) :
        tl \in 1..MaxTime, pt \in Thresholds, n \in 0..MaxQuestions}
    \cup {QuizData("A", Undefined, Undefined, n) : n \in 0..1}

----------------------------------------------------------------------------
(* class Question                                                          *)

\* idx is answers[q.id]: undefined or a number
isCorrect(q, idx) == idx = Some(q.correctIndex)

----------------------------------------------------------------------------
(* class QuizEngine                                                        *)

QuizEngine(q) ==
    LET tl == IF TruthyNum(q.timeLimitSec) THEN q.timeLimitSec[1]
              ELSE DefaultTimeLimitSec
    IN [title |-> q.title,
        timeLimitSec |-> tl,
        passThreshold |-> IF TruthyFrac(q.passThreshold) THEN q.passThreshold[1]
                          ELSE DefaultPassThreshold,
        questions |-> q.questions,
        currentIndex |-> 0,
        answers |-> <<>>,
        remainingSec |-> Some(tl),
        isFinished |-> FALSE,
        summary |-> Undefined]

length(e) == Len(e.questions)

\* questions[currentIndex]: undefined when the index is out of range
currentQuestion(e) ==
    IF e.currentIndex >= 0 /\ e.currentIndex < length(e)
    THEN Some(e.questions[e.currentIndex + 1])
    ELSE Undefined

\* answers[id]
answerOf(answers, id) ==
    IF id \in DOMAIN answers THEN Some(answers[id]) ELSE Undefined

next(e) ==
    IF e.currentIndex < length(e) - 1
    THEN [e EXCEPT !.currentIndex = @ + 1]
    ELSE e

prev(e) ==
    IF e.currentIndex > 0
    THEN [e EXCEPT !.currentIndex = @ - 1]
    ELSE e

goTo(e, idx) ==
    LET i1 == IF idx < 0 THEN 0 ELSE idx
        i2 == IF i1 >= length(e) THEN length(e) - 1 ELSE i1
    IN [e EXCEPT !.currentIndex = i2]

\* select without its isFinished guard
select_NoFinishedGuard(e, optIdx) ==
    LET q == currentQuestion(e) IN
    IF q = Undefined THEN e
    ELSE IF optIdx < 0 \/ optIdx >= Len(q[1].options) THEN e
    ELSE [e EXCEPT !.answers =
            [k \in (DOMAIN @) \cup {q[1].id} |->
                IF k = q[1].id THEN optIdx ELSE @[k]]]

\* select without the check of optIdx against the options
select_NoRangeCheck(e, optIdx) ==
    IF e.isFinished THEN e
    ELSE LET q == currentQuestion(e) IN
         IF q = Undefined THEN e
         ELSE [e EXCEPT !.answers =
                 [k \in (DOMAIN @) \cup {q[1].id} |->
                     IF k = q[1].id THEN optIdx ELSE @[k]]]

select(e, optIdx) ==
    IF e.isFinished THEN e
    ELSE LET q == currentQuestion(e) IN
         IF q = Undefined THEN e
         ELSE IF optIdx < 0 \/ optIdx >= Len(q[1].options) THEN e
         ELSE [e EXCEPT !.answers =
                 [k \in (DOMAIN @) \cup {q[1].id} |->
                     IF k = q[1].id THEN optIdx ELSE @[k]]]

getSelected(e) ==
    LET q == currentQuestion(e) IN
    IF q # Undefined THEN answerOf(e.answers, q[1].id) ELSE Undefined

\* the number of questions whose recorded answer is the correct one
RECURSIVE countCorrect(_, _, _)
countCorrect(questions, answers, k) ==
    IF k = 0 THEN 0
    ELSE countCorrect(questions, answers, k - 1)
         + (IF isCorrect(questions[k], answerOf(answers, questions[k].id))
            THEN 1 ELSE 0)

score(e) ==
    LET correct == countCorrect(e.questions, e.answers, length(e))
        total == length(e)
        percent == IF total # 0 THEN Frac(correct, total) ELSE Frac(0, 1)
    IN [correct |-> correct, total |-> total, percent |-> percent,
        passed |-> FracGE(percent, e.passThreshold)]

\* finish that caches the summary and leaves isFinished as it was
finish_ForgetsFlag(e) ==
    IF e.isFinished /\ e.summary # Undefined THEN e
    ELSE [e EXCEPT !.summary = Some(score(e))]

\* the engine after finish(); the call returns its summary[1]
finish(e) ==
    IF e.isFinished /\ e.summary # Undefined THEN e
    ELSE [e EXCEPT !.isFinished = TRUE, !.summary = Some(score(e))]

\* tick that finishes only once remainingSec is below 0
tick_LateFinish(e) ==
    IF e.isFinished THEN e
    ELSE IF e.remainingSec # Undefined /\ e.remainingSec[1] > 0
         THEN LET d == [e EXCEPT !.remainingSec = Some(@[1] - 1)]
              IN IF d.remainingSec[1] < 0 THEN finish(d) ELSE d
         ELSE finish(e)

\* tick without its isFinished guard
tick_NoFinishedGuard(e) ==
    IF e.remainingSec # Undefined /\ e.remainingSec[1] > 0
    THEN LET d == [e EXCEPT !.remainingSec = Some(@[1] - 1)]
         IN IF d.remainingSec[1] <= 0 THEN finish(d) ELSE d
    ELSE finish(e)

tick(e) ==
    IF e.isFinished THEN e
    ELSE IF e.remainingSec # Undefined /\ e.remainingSec[1] > 0
         THEN LET d == [e EXCEPT !.remainingSec = Some(@[1] - 1)]
              IN IF d.remainingSec[1] <= 0 THEN finish(d) ELSE d
         ELSE finish(e)

toState(e) ==
    [quizTitle |-> Some(e.title),
     currentIndex |-> Some(e.currentIndex),
     answers |-> Some(e.answers),
     remainingSec |-> e.remainingSec,
     isFinished |-> Some(e.isFinished)]

\* fromState with remainingSec || timeLimitSec: 0 counts as absent
fromState_OrDefault(q, state) ==
    LET eng == QuizEngine(q) IN
    IF state = <<>> THEN eng
    ELSE LET s == state[1] IN
         IF s.quizTitle # Some(q.title) THEN eng
         ELSE [eng EXCEPT
                 !.currentIndex = IF TruthyNum(s.currentIndex)
                                  THEN s.currentIndex[1] ELSE 0,
                 !.answers = IF s.answers # Undefined THEN s.answers[1] ELSE <<>>,
                 !.remainingSec = IF TruthyNum(s.remainingSec)
                                  THEN s.remainingSec ELSE q.timeLimitSec,
                 !.isFinished = s.isFinished # Undefined /\ s.isFinished[1]]

\* fromState without the comparison of titles
fromState_NoTitleCheck(q, state) ==
    LET eng == QuizEngine(q) IN
    IF state = <<>> THEN eng
    ELSE LET s == state[1] IN
         [eng EXCEPT
            !.currentIndex = IF TruthyNum(s.currentIndex)
                             THEN s.currentIndex[1] ELSE 0,
            !.answers = IF s.answers # Undefined THEN s.answers[1] ELSE <<>>,
            !.remainingSec = IF s.remainingSec # Undefined
                             THEN s.remainingSec ELSE q.timeLimitSec,
            !.isFinished = s.isFinished # Undefined /\ s.isFinished[1]]

\* state is <<>> (null) or <<snapshot>>
\* fromState that restarts the countdown
fromState_ResetsTime(q, state) ==
    LET fresh == QuizEngine(q) IN
    IF state = Undefined \/ state[1].quizTitle # Some(q.title)
    THEN fresh
    ELSE [(fromState_NoTitleCheck(q, state)) EXCEPT !.remainingSec = fresh.remainingSec]

fromState(q, state) ==
    LET eng == QuizEngine(q) IN
    IF state = <<>> THEN eng
    ELSE LET s == state[1] IN
         IF s.quizTitle # Some(q.title) THEN eng
         ELSE [eng EXCEPT
                 !.currentIndex = IF TruthyNum(s.currentIndex)
                                  THEN s.currentIndex[1] ELSE 0,
                 !.answers = IF s.answers # Undefined THEN s.answers[1] ELSE <<>>,
                 !.remainingSec = IF s.remainingSec # Undefined
                                  THEN s.remainingSec ELSE q.timeLimitSec,
                 !.isFinished = s.isFinished # Undefined /\ s.isFinished[1]]

----------------------------------------------------------------------------
(* class Storage, over localStorage[STORAGE_KEY].  A stored text is either *)
(* the JSON of a snapshot or a text JSON.parse rejects.  On the values a   *)
(* snapshot holds (strings, integers, booleans, a plain object of          *)
(* integers) stringify followed by parse gives the value back, except that *)
(* an undefined property is dropped, which reads back as undefined.        *)

JSONstringify(state) == [wellFormed |-> TRUE, value |-> Some(state)]

\* the text of a snapshot cut short: JSON.parse rejects it
Truncated(state) == [wellFormed |-> FALSE, value |-> Some(state)]

\* a parser that salvages what a rejected text still holds
JSONparse_Lenient(text) == text.value

\* the parsed value, or <<>> when JSON.parse throws
JSONparse(text) == IF text.wellFormed THEN text.value ELSE <<>>

StorageSave(state) == Some(JSONstringify(state))

\* raw is localStorage.getItem(STORAGE_KEY)
StorageLoad(raw) == IF raw = <<>> THEN <<>> ELSE JSONparse(raw[1])

StorageClear == <<>>

persist(e) == StorageSave(toState(e))

----------------------------------------------------------------------------
(* Direct use of one engine: any sequence of calls on the instance, and    *)
(* rehydration of its own snapshot.                                        *)

NoCall(op) == [op |-> op, arg |-> 0]

NavInit == [prev |-> FALSE, next |-> FALSE, finish |-> FALSE]

GoToArgs == (-2)..(MaxQuestions + 1)
SelectArgs == (-1)..3

\* a snapshot taken for a quiz of another title
Retitled(s) == [s EXCEPT !.quizTitle = Some("B")]

\* a snapshot that has no remainingSec property
WithoutRemainingSec(s) == [s EXCEPT !.remainingSec = Undefined]

InitEngine ==
    /\ quiz \in QuizDefs
    /\ engine = QuizEngine(quiz)
    /\ storage = <<>>
    /\ timerId = <<>>
    /\ reviewMode = FALSE
    /\ nav = NavInit
    /\ reloading = FALSE
    /\ pre = engine
    /\ last = NoCall("new")
    /\ ret = <<>>
    /\ finishedTicks = 0
    /\ done = <<>>

Call(op, arg, e) ==
    /\ engine' = e
    /\ pre' = engine
    /\ last' = [op |-> op, arg |-> arg]
    /\ UNCHANGED <<quiz, storage, timerId, reviewMode, nav, reloading,
                   finishedTicks, done>>

CallNext == Call("next", 0, next(engine)) /\ ret' = <<>>

CallPrev == Call("prev", 0, prev(engine)) /\ ret' = <<>>

CallGoTo == \E idx \in GoToArgs : Call("goTo", idx, goTo(engine, idx)) /\ ret' = <<>>

CallSelect == \E o \in SelectArgs : Call("select", o, select(engine, o)) /\ ret' = <<>>

CallTick == Call("tick", 0, tick(engine)) /\ ret' = <<>>

CallFinish == Call("finish", 0, finish(engine)) /\ ret' = finish(engine).summary

\* fromState(quiz, engine.toState())
CallFromState == Call("fromState", 0, fromState(quiz, Some(toState(engine)))) /\ ret' = <<>>

\* fromState(quiz, null)
CallFromNull == Call("fromNull", 0, fromState(quiz, <<>>)) /\ ret' = <<>>

\* fromState(quiz, snapshot of another title)
CallFromOther ==
    Call("fromOther", 0, fromState(quiz, Some(Retitled(toState(engine))))) /\ ret' = <<>>

NextEngine ==
    \/ CallNext
    \/ CallPrev
    \/ CallGoTo
    \/ CallSelect
    \/ CallTick
    \/ CallFinish
    \/ CallFromState
    \/ CallFromNull
    \/ CallFromOther

SpecEngine == InitEngine /\ [][NextEngine]_vars

\* fromState(quiz, snapshot of the quiz's title that lacks remainingSec)
CallFromPartial ==
    /\ Call("fromPartial", 0,
            fromState(quiz, Some(WithoutRemainingSec(toState(engine)))))
    /\ ret' = <<>>

\* the engine given snapshots it did not write itself
NextRehydrate ==
    \/ NextEngine
    \/ CallFromPartial

SpecRehydrate == InitEngine /\ [][NextRehydrate]_vars

----------------------------------------------------------------------------
(* The page: the DOMContentLoaded handler, the handlers bound by           *)
(* bindEvents and the interval callback.  Handlers run one at a time.  A   *)
(* disabled button dispatches no click.                                    *)

\* the documents DATA_URL may serve; it may be edited between two loads
DataFiles ==
    {QuizData("A", Some(MaxTime), Some(Frac(1, 2)), n) : n \in 0..MaxQuestions}
    \cup {QuizData("B", Some(MaxTime), Some(Frac(1, 2)), 1)}

\* renderNav that enables Next without looking at the answer
renderNav_NextNoAnswer(e) ==
    LET has == getSelected(e) # Undefined IN
    [prev |-> e.currentIndex = 0,
     next |-> ~(e.currentIndex < length(e) - 1),
     finish |-> ~(e.currentIndex = length(e) - 1 /\ has)]

renderNav(e) ==
    LET has == getSelected(e) # Undefined IN
    [prev |-> e.currentIndex = 0,
     next |-> ~(e.currentIndex < length(e) - 1 /\ has),
     finish |-> ~(e.currentIndex = length(e) - 1 /\ has)]

\* renderAll: renderQuestion throws on q.options when there is no current
\* question, and renderNav is then not reached
renderAll(e, old) == IF currentQuestion(e) # Undefined THEN renderNav(e) ELSE old

startTimer == Some(1)

\* stopTimer that forgets clearInterval
stopTimer_KeepsInterval == Some(1)

stopTimer == <<>>

\* the engine the page starts with: saved ? fromState(quiz, saved) : new QuizEngine(quiz)
startEngine(q, raw) ==
    LET saved == StorageLoad(raw) IN
    IF saved # <<>> THEN fromState(q, saved) ELSE QuizEngine(q)

\* the session ends for good at Restart or when another document is served
Handled(op, arg) ==
    /\ pre' = engine
    /\ last' = [op |-> op, arg |-> arg]
    /\ finishedTicks' =
         IF op = "load" THEN 0
         ELSE IF op = "timer" /\ engine.isFinished
              THEN (IF finishedTicks < 2 THEN finishedTicks + 1 ELSE finishedTicks)
              ELSE finishedTicks
    /\ done' =
         IF op = "load"
         THEN IF reloading \/ quiz' # quiz \/ done = <<>>
              THEN <<>>
              ELSE Some([done[1] EXCEPT !.reloaded = TRUE])
         ELSE IF done = <<>> /\ engine'.isFinished /\ engine'.summary # Undefined
              THEN Some([remainingSec |-> engine'.remainingSec,
                         summary |-> engine'.summary[1],
                         reloaded |-> FALSE])
              ELSE done

\* a page load: loadQuiz (which throws on a document without questions),
\* Storage.load, bindEvents, renderAll, startTimer.  arg is 1 when the load
\* was asked for by Restart.
Load(q) ==
    /\ q.questions # <<>>
    /\ quiz' = q
    /\ engine' = startEngine(q, storage)
    /\ nav' = renderAll(engine', NavInit)
    /\ timerId' = IF currentQuestion(engine') # Undefined THEN startTimer ELSE <<>>
    /\ reviewMode' = FALSE
    /\ reloading' = FALSE
    /\ ret' = <<>>
    /\ Handled("load", IF reloading THEN 1 ELSE 0)
    /\ UNCHANGED storage

\* a load of whatever document DATA_URL serves by now
DOMContentLoaded == \E q \in DataFiles : Load(q)

\* a reload while DATA_URL serves the same document
Reload == Load(quiz)

BtnPrevClick ==
    /\ ~nav.prev
    /\ engine' = prev(engine)
    /\ storage' = persist(engine')
    /\ nav' = renderAll(engine', nav)
    /\ ret' = <<>>
    /\ Handled("btnPrev", 0)
    /\ UNCHANGED <<quiz, timerId, reviewMode, reloading>>

BtnNextClick ==
    /\ ~nav.next
    /\ engine' = next(engine)
    /\ storage' = persist(engine')
    /\ nav' = renderAll(engine', nav)
    /\ ret' = <<>>
    /\ Handled("btnNext", 0)
    /\ UNCHANGED <<quiz, timerId, reviewMode, reloading>>

BtnFinishClick ==
    /\ ~nav.finish
    /\ engine' = finish(engine)
    /\ ret' = engine'.summary
    /\ timerId' = stopTimer
    /\ storage' = persist(engine')
    /\ Handled("btnFinish", 0)
    /\ UNCHANGED <<quiz, reviewMode, nav, reloading>>

BtnReviewClick ==
    /\ engine' = IF ~engine.isFinished THEN finish(engine) ELSE engine
    /\ reviewMode' = TRUE
    /\ ret' = <<>>
    /\ Handled("btnReview", 0)
    /\ UNCHANGED <<quiz, storage, timerId, nav, reloading>>

\* Storage.clear(); window.location.reload(): the document lives on until
\* the navigation commits (DOMContentLoaded of the next document)
BtnRestartClick ==
    /\ storage' = StorageClear
    /\ reloading' = TRUE
    /\ ret' = <<>>
    /\ UNCHANGED <<quiz, engine, timerId, reviewMode, nav>>
    /\ Handled("btnRestart", 0)

\* the change event of one of the radio inputs rendered for the current question
FormChange ==
    /\ currentQuestion(engine) # Undefined
    /\ \E v \in 0..(Len(currentQuestion(engine)[1].options) - 1) :
        /\ engine' = select(engine, v)
        /\ Handled("change", v)
    /\ storage' = persist(engine')
    /\ nav' = renderNav(engine')
    /\ ret' = <<>>
    /\ UNCHANGED <<quiz, timerId, reviewMode, reloading>>

\* the setInterval callback
TimerFire ==
    /\ timerId # <<>>
    /\ LET t == tick(engine) IN
        /\ storage' = persist(t)
        /\ IF t.isFinished
           THEN /\ timerId' = stopTimer
                /\ engine' = finish(t)
                /\ ret' = engine'.summary
           ELSE /\ timerId' = timerId
                /\ engine' = t
                /\ ret' = <<>>
    /\ Handled("timer", 0)
    /\ UNCHANGED <<quiz, reviewMode, nav, reloading>>

\* the first load of the page, in a browser that holds no snapshot or the
\* text of a Finished snapshot cut short
Init ==
    /\ quiz \in {q \in DataFiles : q.questions # <<>>}
    /\ storage \in {<<>>, Some(Truncated(toState(finish(QuizEngine(quiz)))))}
    /\ engine = startEngine(quiz, storage)
    /\ nav = renderAll(engine, NavInit)
    /\ timerId = startTimer
    /\ reviewMode = FALSE
    /\ reloading = FALSE
    /\ pre = engine
    /\ last = NoCall("load")
    /\ ret = <<>>
    /\ finishedTicks = 0
    /\ done = <<>>

Next ==
    \/ DOMContentLoaded
    \/ BtnPrevClick
    \/ BtnNextClick
    \/ BtnFinishClick
    \/ BtnReviewClick
    \/ BtnRestartClick
    \/ FormChange
    \/ TimerFire

Spec == Init /\ [][Next]_vars

\* one session: DATA_URL keeps serving the same document and Restart is not
\* pressed.  setInterval keeps calling back while the interval is set.
NextSession ==
    \/ Reload
    \/ BtnPrevClick
    \/ BtnNextClick
    \/ BtnFinishClick
    \/ BtnReviewClick
    \/ FormChange
    \/ TimerFire

SpecSession == Init /\ [][NextSession]_vars /\ WF_vars(TimerFire)

----------------------------------------------------------------------------
(* Properties.                                                             *)

Max(a, b) == IF a >= b THEN a ELSE b
Min(a, b) == IF a <= b THEN a ELSE b

\* the engine e was built from the definition q
BuiltFrom(e, q) ==
    LET f == QuizEngine(q) IN
    /\ e.title = f.title
    /\ e.questions = f.questions
    /\ e.timeLimitSec = f.timeLimitSec
    /\ e.passThreshold = f.passThreshold

\* the questions of quiz whose recorded answer is their correctIndex
CorrectlyAnswered ==
    {i \in 1..Len(quiz.questions) :
        /\ quiz.questions[i].id \in DOMAIN engine.answers
        /\ engine.answers[quiz.questions[i].id] = quiz.questions[i].correctIndex}

\* C1: Finished is terminal.  Once isFinished is true it stays true through
\* every handler of the page, and a reload of the same quiz that was not
\* asked for by Restart rehydrates a Finished engine.
C1_FinishedIsTerminal ==
    (/\ pre.isFinished
     /\ ~(last.op = "load" /\ (last.arg = 1 \/ ~BuiltFrom(pre, quiz))))
    => engine.isFinished

\* C2: the summary returned by finish() counts exactly the questions whose
\* recorded answer equals correctIndex, total is the number of questions, and
\* passed is true iff correct/total (0 for no questions) is at least the
\* passThreshold stated by the quiz definition, 0 included.
C2_FinishScoresAgainstThreshold ==
    (last.op = "finish" /\ quiz.passThreshold # Undefined) =>
        LET correct == Cardinality(CorrectlyAnswered)
            total == Len(quiz.questions)
            percent == IF total = 0 THEN Frac(0, 1) ELSE Frac(correct, total)
        IN /\ ret # <<>>
           /\ ret[1].correct = correct
           /\ ret[1].total = total
           /\ ret[1].percent = percent
           /\ ret[1].passed = FracGE(percent, quiz.passThreshold[1])

\* C3: select on a Finished engine changes nothing: answers and every other
\* field of the engine are as they were before the call.
C3_SelectAfterFinishIsNoOp ==
    (last.op = "select" /\ pre.isFinished) => engine = pre

\* C3 witness: select of an option that is valid and not the recorded one was
\* called on a Finished engine that holds answers.
C3_Witness ==
    /\ last.op = "select"
    /\ pre.isFinished
    /\ pre.answers # <<>>
    /\ currentQuestion(pre) # Undefined
    /\ last.arg \in 0..1
    /\ getSelected(pre) # Some(last.arg)

\* C4: finish() changes nothing but isFinished (to true) and the cached
\* summary, which is what it returns; a finish() that directly follows a
\* finish() returns the same summary and changes nothing at all.
C4_FinishIdempotent ==
    /\ [](last.op = "finish" =>
            /\ engine.isFinished
            /\ ret # <<>>
            /\ engine.summary = ret
            /\ engine = [pre EXCEPT !.isFinished = TRUE, !.summary = ret])
    /\ [][(last.op = "finish" /\ last'.op = "finish") =>
            (ret' = ret /\ engine' = engine)]_vars

\* C4 witness: finish() was called on an engine that finish() had already
\* finished, with answers recorded and time left.
C4_Witness ==
    /\ last.op = "finish"
    /\ pre.isFinished
    /\ pre.summary # Undefined
    /\ pre.answers # <<>>
    /\ pre.remainingSec # Some(0)
    /\ pre.currentIndex > 0

\* C5: tick() on an Active engine with remainingSec > 0 takes exactly 1 off
\* remainingSec and finishes the engine in the same call when that gives 0;
\* so an Active engine always has remainingSec >= 1, and remainingSec is
\* never below 0.
C5_TickCountsDown ==
    /\ engine.remainingSec # Undefined
    /\ engine.remainingSec[1] >= 0
    /\ ~engine.isFinished => engine.remainingSec[1] >= 1
    /\ (last.op = "tick" /\ ~pre.isFinished /\ pre.remainingSec[1] > 0) =>
            /\ engine.remainingSec = Some(pre.remainingSec[1] - 1)
            /\ engine.remainingSec[1] = 0 => engine.isFinished
            /\ engine.remainingSec[1] > 0 => ~engine.isFinished

\* C5 witness: a tick took the last second of an Active engine and finished it.
C5_Witness ==
    /\ last.op = "tick"
    /\ ~pre.isFinished
    /\ pre.remainingSec = Some(1)
    /\ engine.remainingSec = Some(0)
    /\ engine.isFinished

\* C6: fromState(quiz, toState()) gives an engine with the currentIndex,
\* answers, remainingSec and isFinished of the original.
C6_RoundTrip ==
    last.op = "fromState" =>
        /\ engine.currentIndex = pre.currentIndex
        /\ engine.answers = pre.answers
        /\ engine.remainingSec = pre.remainingSec
        /\ engine.isFinished = pre.isFinished

\* C6 witness: the round trip of a Finished engine with remainingSec = 0,
\* currentIndex = 0 and a recorded answer.
C6_Witness ==
    /\ last.op = "fromState"
    /\ pre.isFinished
    /\ pre.remainingSec = Some(0)
    /\ pre.currentIndex = 0
    /\ pre.answers # <<>>

\* C7: after prev, next, an option change, the Finish button, a Review click
\* that finishes the session and a timer tick, the stored text is the JSON of
\* engine.toState().
C7_PersistedAfterEveryMutation ==
    (\/ last.op \in {"btnPrev", "btnNext", "change", "btnFinish", "timer"}
     \/ (last.op = "btnReview" /\ ~pre.isFinished))
    => storage = Some(JSONstringify(toState(engine)))

\* C8: fromState with no snapshot, or with a snapshot of another title, gives
\* a fresh engine: currentIndex 0, no answers, remainingSec the time limit,
\* not finished, no summary.
C8_MismatchGivesFreshEngine ==
    last.op \in {"fromNull", "fromOther"} =>
        /\ engine.currentIndex = 0
        /\ engine.answers = <<>>
        /\ engine.remainingSec = Some(engine.timeLimitSec)
        /\ ~engine.isFinished
        /\ engine.summary = Undefined
        /\ engine.title = quiz.title
        /\ engine.questions = quiz.questions

\* C8 witness: fromState was given the snapshot, under another title, of a
\* Finished engine with the cursor moved, answers recorded and time used.
C8_Witness ==
    /\ last.op = "fromOther"
    /\ pre.isFinished
    /\ pre.currentIndex > 0
    /\ pre.answers # <<>>
    /\ pre.remainingSec # Some(pre.timeLimitSec)

\* C9: currentIndex is a valid index into questions in every state of the
\* page, rehydration from a snapshot of a matching title included.
C9_IndexInRange ==
    /\ 0 <= engine.currentIndex
    /\ engine.currentIndex <= Len(engine.questions) - 1

\* C10: after goTo(idx) currentIndex is max(0, min(idx, length-1)), for a
\* quiz of any length, and no other field has changed.
C10_GoToClamps ==
    last.op = "goTo" =>
        /\ engine.currentIndex = Max(0, Min(last.arg, Len(quiz.questions) - 1))
        /\ engine = [pre EXCEPT !.currentIndex = engine.currentIndex]

\* C11: fromState with a snapshot of a matching title that lacks
\* remainingSec gives remainingSec the configured time limit, the
\* timeLimitSec of a freshly constructed engine of that definition, also for
\* a definition that omits timeLimitSec.
C11_MissingRemainingSecDefaults ==
    last.op = "fromPartial" => engine.remainingSec = Some(engine.timeLimitSec)

\* the answers of e with optIdx recorded for the question of id
Recorded(answers, id, optIdx) ==
    [k \in (DOMAIN answers) \cup {id} |-> IF k = id THEN optIdx ELSE answers[k]]

\* C12: select on an Active engine records a valid option index under the
\* current question's id, leaving the other answers and fields alone, and
\* changes nothing for an index out of range; every key of answers is the id
\* of a question and its value an index into that question's options;
\* selecting the recorded option again changes nothing.
C12_SelectRecordsValidAnswers ==
    /\ \A k \in DOMAIN engine.answers :
          \E i \in 1..Len(quiz.questions) :
            /\ quiz.questions[i].id = k
            /\ engine.answers[k] \in 0..(Len(quiz.questions[i].options) - 1)
    /\ (/\ last.op = "select"
        /\ ~pre.isFinished
        /\ pre.currentIndex \in 0..(Len(quiz.questions) - 1)) =>
          LET q == quiz.questions[pre.currentIndex + 1] IN
          IF last.arg \in 0..(Len(q.options) - 1)
          THEN /\ engine = [pre EXCEPT !.answers = Recorded(pre.answers, q.id, last.arg)]
               /\ (q.id \in DOMAIN pre.answers /\ pre.answers[q.id] = last.arg)
                     => engine = pre
          ELSE engine = pre

\* C12 witness: select overwrote the recorded answer of the second question
\* while the first question's answer stayed.
C12_Witness ==
    /\ last.op = "select"
    /\ ~pre.isFinished
    /\ pre.currentIndex = 1
    /\ DOMAIN pre.answers = {1, 2}
    /\ pre.answers[2] # last.arg
    /\ engine.answers[2] = last.arg
    /\ engine.answers[1] = pre.answers[1]

\* C14 as claimed: tick() on a Finished engine leaves remainingSec, answers,
\* currentIndex and isFinished alone and leaves a cached summary behind.
C14_TickOnFinishedScores ==
    (last.op = "tick" /\ pre.isFinished) =>
        /\ engine.remainingSec = pre.remainingSec
        /\ engine.answers = pre.answers
        /\ engine.currentIndex = pre.currentIndex
        /\ engine.isFinished
        /\ engine.summary # Undefined

\* C14 amended: tick() on a Finished engine changes nothing at all; it does
\* not score, so an engine without a cached summary still has none.
C14_TickOnFinishedIsNoOp ==
    (last.op = "tick" /\ pre.isFinished) => engine = pre

\* C14 witness: tick() was called on a rehydrated Finished engine, which has
\* time left and no cached summary.
C14_Witness ==
    /\ last.op = "tick"
    /\ pre.isFinished
    /\ pre.summary = Undefined
    /\ pre.remainingSec # Undefined
    /\ pre.remainingSec[1] > 0
    /\ engine.summary = Undefined

\* C13: the interval is stopped once the session is Finished, by whichever
\* path: a callback or the Finish handler that ends with a Finished engine
\* leaves no interval, a document runs at most one callback on a Finished
\* engine, and such a callback leaves remainingSec alone.
C13_TimerStopsOnceFinished ==
    /\ finishedTicks <= 1
    /\ (last.op \in {"timer", "btnFinish"} /\ engine.isFinished) => timerId = <<>>
    /\ (last.op = "timer" /\ pre.isFinished) =>
          engine.remainingSec = pre.remainingSec

\* C13 witness: the one callback after the Review handler finished a session
\* that had time left.
C13_Witness ==
    /\ last.op = "timer"
    /\ pre.isFinished
    /\ reviewMode
    /\ pre.remainingSec[1] > 0
    /\ finishedTicks = 1
    /\ timerId = <<>>

\* C15: after a load that found no stored text, or one that does not parse,
\* the page holds a fresh engine: currentIndex 0, no answers, the full time
\* limit, Active, with the interval running.
C15_UnreadableSnapshotStartsFresh ==
    (last.op = "load" /\ (storage = <<>> \/ ~storage[1].wellFormed)) =>
        /\ engine.currentIndex = 0
        /\ DOMAIN engine.answers = {}
        /\ engine.remainingSec = Some(quiz.timeLimitSec[1])
        /\ ~engine.isFinished
        /\ engine.summary = Undefined
        /\ timerId # <<>>

\* C15 witness: a reload found a stored text that does not parse; the
\* document before it had finished its session without persisting.
C15_Witness ==
    /\ last.op = "load"
    /\ storage # <<>>
    /\ ~storage[1].wellFormed
    /\ pre.isFinished
    /\ ~engine.isFinished

\* C16: once the Restart handler has run, nothing the old document still
\* does writes a snapshot back, and the load that follows finds none and
\* starts a fresh Active session with the full time limit.
C16_RestartRemovesSnapshot ==
    /\ reloading => storage = <<>>
    /\ (last.op = "load" /\ last.arg = 1) =>
          /\ storage = <<>>
          /\ engine.currentIndex = 0
          /\ DOMAIN engine.answers = {}
          /\ engine.remainingSec = Some(quiz.timeLimitSec[1])
          /\ ~engine.isFinished

\* C17: while the interval keeps calling back and Restart is not pressed,
\* the session reaches Finished whatever the user does and however often the
\* page is reloaded, and no reload gives the countdown more time.
C17_EverySessionFinishes ==
    /\ <>(engine.isFinished)
    /\ [][last'.op = "load" => engine'.remainingSec[1] <= engine.remainingSec[1]]_vars

\* C17 witness: a reload in the middle of the countdown kept the time used up.
C17_Witness ==
    /\ last.op = "load"
    /\ ~engine.isFinished
    /\ engine.remainingSec[1] < engine.timeLimitSec
    /\ engine.remainingSec = pre.remainingSec

\* C18: without Restart, no handler, callback or reload leaves remainingSec
\* greater than it was, and once the session has finished remainingSec keeps
\* the value it finished with.
C18_RemainingSecNeverIncreases ==
    /\ engine.remainingSec[1] <= pre.remainingSec[1]
    /\ done # <<>> => engine.remainingSec = done[1].remainingSec

\* the questions of the quiz that have a recorded answer
Answered(i) == quiz.questions[i].id \in DOMAIN engine.answers

\* C19: every question at an index below currentIndex has a recorded answer,
\* and a session the Finish handler has just finished has an answer for
\* every question.
C19_EarlierQuestionsAnswered ==
    /\ \A i \in 1..Len(quiz.questions) : i - 1 < engine.currentIndex => Answered(i)
    /\ last.op = "btnFinish" => \A i \in 1..Len(quiz.questions) : Answered(i)

\* C19 witness: the Finish handler finished a two-question session on its
\* last question.
C19_Witness ==
    /\ last.op = "btnFinish"
    /\ ~pre.isFinished
    /\ Len(quiz.questions) = 2
    /\ engine.currentIndex = 1

\* C20: a summary displayed after a reload of a session that had finished
\* equals the summary the session finished with.
C20_SummaryStableAcrossReloads ==
    (done # <<>> /\ done[1].reloaded /\ ret # <<>>) => ret[1] = done[1].summary

====
